---- MODULE Spec2Model ----
(***************************************************************************)
(* SpaceTraveling: a statically generated blog front-end over a headless   *)
(* CMS.  The model covers the detail page's getStaticProps (article fetch  *)
(* and previous/next resolution), the preview API handler, the home page's *)
(* getStaticProps and its "load more" handler, and the two                 *)
(* parsePrismicResponse normalizers.                                       *)
(*                                                                         *)
(* JavaScript values: an object is a function whose DOMAIN is the set of   *)
(* keys it has; reading a key it does not have gives Undefined.  Scalars   *)
(* (uids, titles, dates in seconds) are positive integers, null is Null.   *)
(***************************************************************************)
EXTENDS Integers, Sequences, FiniteSets, TLC

\* ---- bounds ----
MaxArticles == 3      \* documents in the store of the detail-page runs
MaxDate == 3          \* publication dates are seconds 1..MaxDate
SubSecondTicks == 2   \* wall-clock resolution: ticks per second
MaxPosts == 12        \* documents in the store of the listing runs
MaxPending == 2       \* handleLoadPosts calls awaiting their response
MaxSections == 2      \* content sections of a raw document

\* ---- JavaScript null / undefined ----
Null == 0
Undefined == 0 - 1

\* obj.key
Get(obj, key) == IF key \in DOMAIN obj THEN obj[key] ELSE Undefined

\* a ?? b
Coalesce(a, b) == IF a = Null \/ a = Undefined THEN b ELSE a

\* a thrown exception, as the value an evaluation produces
Throw(name) == [threw |-> name]
Threw(x) == "threw" \in DOMAIN x

Min(a, b) == IF a < b THEN a ELSE b

\* the first n elements of s
Take(s, n) == SubSeq(s, 1, Min(n, Len(s)))

\* ---- preview tokens ----
NoRef == "none"            \* no ref passed: the CMS serves the master ref
PreviewToken == "preview"  \* the ref the CMS issued for the draft revision
Tokens == {PreviewToken, "forged"}

\* index.tsx getStaticProps: pageSize: 10, // use 1 for test purposes
HomePageSize == 10
PageSizes == {1, HomePageSize}

VARIABLES
  dates,        \* store: uid -> first_publication_date (Null for a draft)
  order,        \* store: the uids in the CMS's default result order
  pageSize,     \* page size of the listing query
  nowTicks,     \* wall clock, in ticks
  previewData,  \* the hosting preview mechanism: NoRef or the persisted ref
  pc,           \* position of the page build in progress
  detail,       \* locals and return value of post/[slug] getStaticProps
  sent,         \* per CMS call: the session active and the ref forwarded
  api,          \* preview API handler: request and response
  homeProps,    \* return value of the home page's getStaticProps
  posts,        \* Home state: posts
  nextPageUrl,  \* Home state: nextPageUrl
  pending,      \* handleLoadPosts calls awaiting fetch, as their closures
  raw,          \* a raw CMS document handed to a normalizer
  parsed        \* what the normalizer produced for it

vars == <<dates, order, pageSize, nowTicks, previewData, pc, detail, sent,
          api, homeProps, posts, nextPageUrl, pending, raw, parsed>>

storeVars == <<dates, order, pageSize, nowTicks>>
normVars == <<raw, parsed>>
clientVars == <<posts, nextPageUrl, pending>>

\* ---- the CMS store ----
Uids == DOMAIN dates

Title(i) == 10 + i

\* the document the CMS serves for uid i
Doc(i) ==
  [uid |-> i,
   first_publication_date |-> dates[i],
   last_publication_date |-> dates[i],
   data |-> [title |-> Title(i), subtitle |-> 20 + i, banner |-> 30 + i,
             author |-> 40 + i,
             content |-> <<[heading |-> 50 + i, body |-> <<60 + i>>]>>]]

\* a draft (never published) is served only under the preview ref
Visible(i, ref) == dates[i] # Null \/ ref = PreviewToken

\* Prismic.Predicates.dateAfter / dateBefore on first_publication_date
DateAfter(i, d) == dates[i] # Null /\ dates[i] > d
DateBefore(i, d) == dates[i] # Null /\ dates[i] < d

\* prismic.query(predicates, {pageSize}) with no orderings: the documents
\* matching the predicates, in the store's default order, first page
QueryResults(matching, size, ref) ==
  Take(SelectSeq(order, LAMBDA i : Visible(i, ref) /\ i \in matching), size)

\* prismic.getByUID('posts', slug, ref ? {ref} : null)
GetByUID(slug, ref) ==
  IF slug \in Uids /\ Visible(slug, ref) THEN slug ELSE Null

\* format(new Date(), "yyyy-MM-dd'T'HH:mm:ssXXXX"): the clock cut to seconds
FormatNow(ticks) == ticks \div SubSecondTicks

\* ---- idle values ----
NullPost == [null |-> TRUE]
IsNull(x) == "null" \in DOMAIN x

NoResult == [kind |-> "none"]
Rejected == [kind |-> "rejected"]

DetailIdle ==
  [slug |-> Null, ref |-> NoRef, response |-> Null, publicationDate |-> Null,
   nextPost |-> <<>>, failed |-> "none", result |-> NoResult]

ApiIdle ==
  [state |-> "idle", documentId |-> Null, token |-> NoRef, status |-> Null,
   body |-> "", written |-> ""]

\* one CMS call: the preview session active when it was made, the ref it sent
Call(name, ref) == [call |-> name, session |-> previewData, ref |-> ref]

\* ---- post/[slug].tsx: parsePrismicResponse ----
parseContent(content) ==
  IF \E k \in DOMAIN content : "body" \notin DOMAIN content[k]
  THEN Throw("TypeError")    \* [...undefined]
  ELSE [sections |->
          [k \in DOMAIN content |->
             [heading |-> Get(content[k], "heading"),
              body |-> content[k].body]]]

parsePost(document) ==
  IF "data" \notin DOMAIN document \/ "content" \notin DOMAIN document.data
  THEN Throw("TypeError")    \* property read of undefined
  ELSE LET c == parseContent(document.data.content) IN
       IF Threw(c) THEN c
       ELSE [uid |-> Get(document, "uid"),
             first_publication_date |-> Get(document, "first_publication_date"),
             last_publication_date |-> Get(document, "last_publication_date"),
             data |-> [title |-> Get(document.data, "title"),
                       subtitle |-> Get(document.data, "subtitle"),
                       banner |-> Get(document.data, "banner"),
                       author |-> Get(document.data, "author"),
                       content |-> c.sections]]

\* ---- index.tsx: parsePrismicResponse ----
parseSummary(post) ==
  [uid |-> Get(post, "uid"),
   first_publication_date |-> Get(post, "first_publication_date"),
   data |-> [title |-> Get(post.data, "title"),
             subtitle |-> Get(post.data, "subtitle"),
             author |-> Get(post.data, "author")]]

parseListing(data) ==
  IF \E k \in DOMAIN data.results : "data" \notin DOMAIN data.results[k]
  THEN Throw("TypeError")
  ELSE [next_page |-> data.next_page,
        results |-> [k \in DOMAIN data.results |-> parseSummary(data.results[k])]]

\* ---- post/[slug].tsx: getStaticProps ----
\* results[0] ? {id: results[0].uid, title: results[0].data.title} : null
PostInfo(results) ==
  IF Len(results) > 0
  THEN [id |-> Doc(results[1]).uid, title |-> Doc(results[1]).data.title]
  ELSE NullPost

\* slip: the reference date is always the clock, the article's date unused
PublicationDate_NowOnly(response) == FormatNow(nowTicks)

\* slip: no fallback to the clock when the article has no publication date
PublicationDate_NoFallback(response) == Doc(response).first_publication_date

\* the reference date of the two neighbour queries
PublicationDate(response) ==
  Coalesce(Doc(response).first_publication_date, FormatNow(nowTicks))

\* the ref the neighbour queries pass to the CMS
NeighbourRef == NoRef

NextQuery(d) ==
  QueryResults({i \in Uids : DateAfter(i, d)}, 1, NeighbourRef)
PreviousQuery(d) ==
  QueryResults({i \in Uids : DateBefore(i, d)}, 1, NeighbourRef)

\* up to the first await: read the preview ref, ask for the article
DetailBegin(slug) ==
  /\ pc = "idle"
  /\ LET ref == previewData IN
       /\ detail' = [DetailIdle EXCEPT !.slug = slug, !.ref = ref]
       /\ sent' = sent \cup {Call("getByUID", ref)}
  /\ pc' = "awaitGetByUID"
  /\ UNCHANGED <<storeVars, previewData, api, homeProps, clientVars, normVars>>

\* the article arrived (or the call failed); ask for the next post
DetailGotResponse(ok) ==
  /\ pc = "awaitGetByUID"
  /\ LET response == GetByUID(detail.slug, detail.ref) IN
       IF ~ok
       THEN /\ detail' = [detail EXCEPT !.failed = "getByUID",
                                         !.result = Rejected]
            /\ pc' = "done"
            /\ sent' = sent
       ELSE IF response = Null
       THEN /\ detail' = [detail EXCEPT
                            !.result = [kind |-> "redirect", destination |-> "/"]]
            /\ pc' = "done"
            /\ sent' = sent
       ELSE /\ detail' = [detail EXCEPT
                            !.response = response,
                            !.publicationDate = PublicationDate(response)]
            /\ pc' = "awaitNext"
            /\ sent' = sent \cup
                 {Call("queryNext", NeighbourRef)}
  /\ UNCHANGED <<storeVars, previewData, api, homeProps, clientVars, normVars>>

\* the next post arrived (or the call failed); ask for the previous post
DetailGotNext(ok) ==
  /\ pc = "awaitNext"
  /\ IF ~ok
     THEN /\ detail' = [detail EXCEPT !.failed = "queryNext",
                                       !.result = Rejected]
          /\ pc' = "done"
          /\ sent' = sent
     ELSE /\ detail' = [detail EXCEPT
                          !.nextPost = NextQuery(detail.publicationDate)]
          /\ pc' = "awaitPrevious"
          /\ sent' = sent \cup
               {Call("queryPrevious", NeighbourRef)}
  /\ UNCHANGED <<storeVars, previewData, api, homeProps, clientVars, normVars>>

\* the previous post arrived (or the call failed); return the props
DetailGotPrevious(ok) ==
  /\ pc = "awaitPrevious"
  /\ IF ~ok
     THEN detail' = [detail EXCEPT !.failed = "queryPrevious",
                                  !.result = Rejected]
     ELSE detail' = [detail EXCEPT !.result =
            [kind |-> "props",
             preview |-> (previewData # NoRef),
             post |-> parsePost(Doc(detail.response)),
             nextPost |-> PostInfo(detail.nextPost),
             previousPost |-> PostInfo(PreviousQuery(detail.publicationDate))]]
  /\ pc' = "done"
  /\ UNCHANGED <<storeVars, previewData, sent, api, homeProps, clientVars, normVars>>

\* ---- preview API handler ----
\* _lib/linkResolver: the route of a post document
linkResolver(i) == "/post/" \o ToString(Doc(i).uid)

\* getPreviewResolver(token, documentId).resolve(linkResolver, '/'): the link
\* of the previewed document, '/' when it has no route of its own, and
\* nothing when the CMS does not accept the token
PreviewResolve(token, documentId) ==
  IF token # PreviewToken THEN ""
  ELSE IF documentId \in Uids THEN linkResolver(documentId)
  ELSE "/"

\* slip: the resolution's result is never tested
NoRedirect_Never(redirectUrl) == FALSE

\* !redirectUrl
NoRedirect(redirectUrl) == redirectUrl = ""

\* up to the await: read documentId and token, ask the CMS to resolve them
PreviewBegin(documentId, token) ==
  /\ pc = "idle"
  /\ api.state = "idle"
  /\ api' = [api EXCEPT !.state = "awaitResolve", !.documentId = documentId,
                        !.token = token]
  /\ UNCHANGED <<storeVars, previewData, pc, detail, sent, homeProps,
                 clientVars, normVars>>

\* the resolution arrived: 401, or persist the ref and write the redirect
PreviewResolved ==
  /\ api.state = "awaitResolve"
  /\ LET redirectUrl == PreviewResolve(api.token, api.documentId) IN
       IF NoRedirect(redirectUrl)
       THEN /\ api' = [api EXCEPT !.state = "done", !.status = 401,
                                  !.body = "Invalid token"]
            /\ previewData' = previewData
       ELSE /\ previewData' = api.token
            /\ api' = [api EXCEPT !.state = "done", !.status = 200,
                                  !.written = redirectUrl]
  /\ UNCHANGED <<storeVars, pc, detail, sent, homeProps, clientVars, normVars>>

\* ---- index.tsx: getStaticProps and Home ----
\* the result set of the listing query: every visible post, in store order
ResultSet(ref) == SelectSeq(order, LAMBDA i : Visible(i, ref))

\* the CMS's page p of the listing; next_page is its cursor for page p + 1
ServerPage(p, ref) ==
  LET all == ResultSet(ref)
      from == (p - 1) * pageSize + 1
      to == Min(p * pageSize, Len(all))
  IN  [results |-> [k \in 1..(IF to < from THEN 0 ELSE to - from + 1) |->
                      Doc(all[from + k - 1])],
       next_page |-> IF p * pageSize < Len(all) THEN p + 1 ELSE Null]

\* the ref the listing query passes to the CMS
ListingRef == NoRef

HomeBegin ==
  /\ pc = "idle"
  /\ pc' = "awaitHome"
  /\ sent' = sent \cup {Call("homeQuery", ListingRef)}
  /\ UNCHANGED <<storeVars, previewData, detail, api, homeProps, clientVars,
                 normVars>>

HomeGotResponse(ok) ==
  /\ pc = "awaitHome"
  /\ homeProps' = IF ok
                  THEN [kind |-> "props",
                        postsPagination |-> parseListing(ServerPage(1, ListingRef))]
                  ELSE Rejected
  /\ pc' = "homeDone"
  /\ UNCHANGED <<storeVars, previewData, detail, sent, api, clientVars, normVars>>

\* first render of Home: useState(postsPagination.results / .next_page)
HomeMount ==
  /\ pc = "homeDone"
  /\ homeProps.kind = "props"
  /\ posts' = homeProps.postsPagination.results
  /\ nextPageUrl' = homeProps.postsPagination.next_page
  /\ pc' = "mounted"
  /\ UNCHANGED <<storeVars, previewData, detail, sent, api, homeProps, pending,
                 normVars>>

\* slip: the client builds the next cursor itself instead of passing it back
FetchUrl_Constructed(closure) == closure.nextPageUrl + 1

\* slip: the fetched page replaces the list instead of extending it
LoadedPosts_Replaced(closure, result) == result.results

\* the URL handleLoadPosts fetches
FetchUrl(closure) == closure.nextPageUrl

\* [...posts, ...result.results]
LoadedPosts(closure, result) == closure.posts \o result.results

\* a click on "Carregar mais posts": handleLoadPosts of the current render
\* starts and suspends at its fetch; limit bounds the calls in flight
HandleLoadPosts(limit) ==
  /\ pc = "mounted"
  /\ nextPageUrl # Null
  /\ Len(pending) < limit
  /\ LET closure == [posts |-> posts, nextPageUrl |-> nextPageUrl] IN
       pending' = Append(pending, [posts |-> closure.posts,
                                   url |-> FetchUrl(closure)])
  /\ UNCHANGED <<storeVars, previewData, pc, detail, sent, api, homeProps,
                 posts, nextPageUrl, normVars>>

\* the response of call k arrived: parse it, setPosts, setNextPageUrl
LoadPostsFetched(k, ok) ==
  /\ k \in DOMAIN pending
  /\ pending' = [j \in 1..(Len(pending) - 1) |->
                   IF j < k THEN pending[j] ELSE pending[j + 1]]
  /\ IF ok
     THEN LET result == parseListing(ServerPage(pending[k].url, ListingRef)) IN
            /\ posts' = LoadedPosts(pending[k], result)
            /\ nextPageUrl' = result.next_page
     ELSE UNCHANGED <<posts, nextPageUrl>>
  /\ UNCHANGED <<storeVars, previewData, pc, detail, sent, api, homeProps,
                 normVars>>

\* ---- raw CMS documents, well-formed or lacking fields ----
SectionShapes ==
  {[heading |-> 1, body |-> <<1>>], [body |-> <<1>>], [heading |-> 1]}

Contents == UNION {[1..n -> SectionShapes] : n \in 0..MaxSections}

RawDatas ==
  {[k \in K \cup {"banner"} |-> 1] : K \in SUBSET {"title", "author", "subtitle"}}
  \cup
  {[k \in K \cup {"banner", "content"} |-> IF k = "content" THEN c ELSE 1] :
     K \in SUBSET {"title", "author", "subtitle"}, c \in Contents}

RawDocs ==
  {[k \in K \cup {"first_publication_date", "last_publication_date"} |->
      IF k = "data" THEN data
      ELSE IF k = "first_publication_date" THEN fpd
      ELSE 1] :
     K \in SUBSET {"uid", "data"}, fpd \in {Null, 1}, data \in RawDatas}

NoParse == [by |-> "none"]

\* post/[slug].tsx: parsePrismicResponse(response as Document)
NormalizePost ==
  /\ parsed.by = "none"
  /\ parsed' = [by |-> "post", value |-> parsePost(raw)]
  /\ UNCHANGED <<storeVars, previewData, pc, detail, sent, api, homeProps,
                 clientVars, raw>>

\* index.tsx: parsePrismicResponse of a response holding the document
NormalizeListing ==
  /\ parsed.by = "none"
  /\ parsed' = [by |-> "listing",
                value |-> parseListing([next_page |-> Null, results |-> <<raw>>])]
  /\ UNCHANGED <<storeVars, previewData, pc, detail, sent, api, homeProps,
                 clientVars, raw>>

\* ---- specifications ----
Perms(S) ==
  {f \in [1..Cardinality(S) -> S] :
     \A i, j \in 1..Cardinality(S) : i # j => f[i] # f[j]}

InitIdle ==
  /\ pc = "idle"
  /\ detail = DetailIdle
  /\ sent = {}
  /\ api = ApiIdle
  /\ homeProps = NoResult
  /\ posts = <<>>
  /\ nextPageUrl = Null
  /\ pending = <<>>
  /\ parsed = NoParse

\* a build of one detail page, over every small store, default order and
\* clock, with or without an active preview session
InitDetail ==
  /\ dates \in [1..MaxArticles -> {Null} \cup 1..MaxDate]
  /\ order \in Perms(1..MaxArticles)
  /\ pageSize = HomePageSize
  /\ nowTicks \in ((MaxDate - 1) * SubSecondTicks)..((MaxDate + 1) * SubSecondTicks - 1)
  /\ previewData \in {NoRef, PreviewToken}
  /\ raw = Doc(1)
  /\ InitIdle

NextDetail ==
  \/ \E slug \in 1..MaxArticles : DetailBegin(slug)
  \/ \E ok \in BOOLEAN : DetailGotResponse(ok)
  \/ \E ok \in BOOLEAN : DetailGotNext(ok)
  \/ \E ok \in BOOLEAN : DetailGotPrevious(ok)

SpecDetail == InitDetail /\ [][NextDetail]_vars

\* preview requests followed by page builds, over stores of posts and drafts
InitPreview ==
  /\ dates \in [1..MaxArticles -> {Null, 1}]
  /\ order = [i \in 1..MaxArticles |-> i]
  /\ pageSize = HomePageSize
  /\ nowTicks = MaxDate * SubSecondTicks
  /\ previewData = NoRef
  /\ raw = Doc(1)
  /\ InitIdle

NextPreview ==
  \/ \E documentId \in 1..(MaxArticles + 1), token \in Tokens :
       PreviewBegin(documentId, token)
  \/ PreviewResolved
  \/ \E slug \in 1..MaxArticles : DetailBegin(slug)
  \/ \E ok \in BOOLEAN : DetailGotResponse(ok)
  \/ \E ok \in BOOLEAN : DetailGotNext(ok)
  \/ \E ok \in BOOLEAN : DetailGotPrevious(ok)
  \/ HomeBegin
  \/ \E ok \in BOOLEAN : HomeGotResponse(ok)

SpecPreview == InitPreview /\ [][NextPreview]_vars

\* the home page over stores of 0..MaxPosts published posts
InitList ==
  /\ \E total \in 0..MaxPosts :
       /\ dates = [i \in 1..total |-> 1]
       /\ order = [i \in 1..total |-> i]
  /\ pageSize \in PageSizes
  /\ nowTicks = MaxDate * SubSecondTicks
  /\ previewData = NoRef
  /\ raw = Null
  /\ InitIdle

\* each load starts after the previous one has completed
NextSeq ==
  \/ HomeBegin
  \/ \E ok \in BOOLEAN : HomeGotResponse(ok)
  \/ HomeMount
  \/ HandleLoadPosts(1)
  \/ \E k \in 1..MaxPending, ok \in BOOLEAN : LoadPostsFetched(k, ok)

SpecSeq == InitList /\ [][NextSeq]_vars

\* loads may start while earlier ones await, responses come in any order
NextRace ==
  \/ HomeBegin
  \/ \E ok \in BOOLEAN : HomeGotResponse(ok)
  \/ HomeMount
  \/ HandleLoadPosts(MaxPending)
  \/ \E k \in 1..MaxPending, ok \in BOOLEAN : LoadPostsFetched(k, ok)

SpecRace == InitList /\ [][NextRace]_vars

\* the normalizers applied to every raw document
InitNorm ==
  /\ dates = [i \in 1..MaxArticles |-> 1]
  /\ order = [i \in 1..MaxArticles |-> i]
  /\ pageSize = HomePageSize
  /\ nowTicks = MaxDate * SubSecondTicks
  /\ previewData = NoRef
  /\ raw \in RawDocs
  /\ InitIdle

NextNorm ==
  \/ NormalizePost
  \/ NormalizeListing

SpecNorm == InitNorm /\ [][NextNorm]_vars

\* ---- properties ----
\* the published posts later / earlier than d
After(d) == {i \in Uids : DateAfter(i, d)}
Before(d) == {i \in Uids : DateBefore(i, d)}

\* C1: next is the published post with the smallest date greater than the
\* reference date, previous the one with the largest date less than it,
\* whatever the store's default order
C1_NearestNeighbours ==
  detail.result.kind = "props" =>
    LET d == detail.publicationDate
        n == detail.result.nextPost
        p == detail.result.previousPost
    IN  /\ IF After(d) = {} THEN IsNull(n)
           ELSE /\ ~IsNull(n)
                /\ n.id \in After(d)
                /\ \A j \in After(d) : dates[n.id] <= dates[j]
        /\ IF Before(d) = {} THEN IsNull(p)
           ELSE /\ ~IsNull(p)
                /\ p.id \in Before(d)
                /\ \A j \in Before(d) : dates[p.id] >= dates[j]

\* C2: a returned next post is published strictly after the reference
\* article's date and a returned previous post strictly before it; neither
\* is the reference article or a post sharing its date
C2_StrictNeighbours ==
  detail.result.kind = "props" =>
    LET ref == detail.response
        n == detail.result.nextPost
        p == detail.result.previousPost
    IN  /\ ~IsNull(n) =>
             /\ n.id # ref
             /\ dates[n.id] # Null
             /\ dates[ref] # Null => dates[n.id] > dates[ref]
        /\ ~IsNull(p) =>
             /\ p.id # ref
             /\ dates[p.id] # Null
             /\ dates[ref] # Null => dates[p.id] < dates[ref]

\* a neighbour returned for a published article that shares its date with
\* another post
C2_Witness ==
  /\ detail.result.kind = "props"
  /\ ~IsNull(detail.result.nextPost)
  /\ dates[detail.response] # Null
  /\ \E i \in Uids : i # detail.response /\ dates[i] = dates[detail.response]

\* C3: when the next or the previous query fails after the article was
\* fetched, getStaticProps still returns the props, with both neighbours null
C3_AdjacencyFailureDowngraded ==
  detail.failed \in {"queryNext", "queryPrevious"} =>
    /\ detail.result.kind = "props"
    /\ IsNull(detail.result.nextPost)
    /\ IsNull(detail.result.previousPost)

\* C4: a preview request with an invalid token is answered 401 "Invalid
\* token" with nothing written, and a preview session exists only after a
\* request whose token resolved
C4_InvalidTokenUnauthorized ==
  /\ (api.state = "done" /\ api.token # PreviewToken) =>
       /\ api.status = 401
       /\ api.body = "Invalid token"
       /\ api.written = ""
       /\ previewData = NoRef
  /\ previewData # NoRef =>
       /\ api.state = "done"
       /\ api.token = PreviewToken
       /\ previewData = api.token

C4_Witness ==
  /\ api.state = "done"
  /\ api.token # PreviewToken
  /\ api.status = 401
  /\ pc = "done"

\* C5: every CMS call made while a preview session is active forwards the
\* session's ref
C5_RefForwardedEverywhere ==
  \A c \in sent : c.session # NoRef => c.ref = c.session

\* the first k pages of the listing as the server serves them
RECURSIVE FirstPages(_)
FirstPages(k) ==
  IF k = 0 THEN <<>>
  ELSE FirstPages(k - 1) \o parseListing(ServerPage(k, NoRef)).results

ShownUids == [i \in DOMAIN posts |-> posts[i].uid]

NoDuplicates == \A i, j \in DOMAIN posts : i # j => posts[i].uid # posts[j].uid

\* C6: with loads one after the other, the visible list is the first k
\* server pages in order, without duplicates or gaps, and is the whole
\* result set once the cursor is null
C6_PrefixOfPages ==
  pc = "mounted" =>
    /\ \E k \in 1..(Len(ResultSet(NoRef)) + 1) :
         /\ posts = FirstPages(k)
         /\ ShownUids = Take(ResultSet(NoRef), k * pageSize)
    /\ NoDuplicates
    /\ nextPageUrl = Null => ShownUids = ResultSet(NoRef)

\* several pages were loaded and the cursor is exhausted
C6_Witness ==
  /\ pc = "mounted"
  /\ Len(posts) > 2 * pageSize
  /\ nextPageUrl = Null
  /\ pending = <<>>

\* C7, in every state: the cursor is null exactly when everything is loaded,
\* a load in flight fetches the cursor the server gave for the last loaded
\* page, no load can start on a null cursor, and with page size 1 over three
\* posts the list stops at three
C7_CursorState ==
  pc = "mounted" =>
    /\ (nextPageUrl = Null) <=> (Len(posts) = Len(ResultSet(NoRef)))
    /\ \A k \in DOMAIN pending :
         /\ pending[k].url # Null
         /\ pending[k].url =
              ServerPage(Len(pending[k].posts) \div pageSize, NoRef).next_page
    /\ nextPageUrl = Null => ~ENABLED HandleLoadPosts(1)
    /\ (pageSize = 1 /\ Len(ResultSet(NoRef)) = 3) =>
         /\ Len(posts) \in 1..3
         /\ Len(posts) = 3 => nextPageUrl = Null /\ pending = <<>>

\* C7: the cursor state above, and every load adds exactly one full page
\* (one post when the page size is 1), the last page what remains
C7_CursorProtocol ==
  /\ []C7_CursorState
  /\ [][(pc = "mounted" /\ posts' # posts) =>
          Len(posts') = Len(posts)
                        + Min(pageSize, Len(ResultSet(NoRef)) - Len(posts))]_vars

\* page size 1, three posts, all three loaded
C7_Witness ==
  /\ pc = "mounted"
  /\ pageSize = 1
  /\ Len(ResultSet(NoRef)) = 3
  /\ Len(posts) = 3
  /\ nextPageUrl = Null

\* now, compared in ticks with a date in seconds
PublishedAfterNow(i) == dates[i] # Null /\ dates[i] * SubSecondTicks > nowTicks
PublishedBeforeNow(i) == dates[i] # Null /\ dates[i] * SubSecondTicks < nowTicks

\* C8: for an article without publication date the build does not fail and
\* the neighbours are relative to the clock: next is a post published after
\* now (null when there is none), previous a post published before now
C8_DraftUsesNow ==
  (detail.response # Null /\ dates[detail.response] = Null) =>
    /\ detail.publicationDate \notin {Null, Undefined}
    /\ (pc = "done" /\ detail.failed = "none") => detail.result.kind = "props"
    /\ detail.result.kind = "props" =>
         LET n == detail.result.nextPost
             p == detail.result.previousPost
         IN  /\ IsNull(n) <=> ~\E i \in Uids : PublishedAfterNow(i)
             /\ ~IsNull(n) => PublishedAfterNow(n.id)
             /\ ~IsNull(p) => PublishedBeforeNow(p.id)
             /\ (\E i \in Uids : dates[i] # Null
                                  /\ dates[i] < nowTicks \div SubSecondTicks)
                  => ~IsNull(p)

\* a previewed draft, no post after now, some post before now
C8_Witness ==
  /\ detail.response # Null
  /\ dates[detail.response] = Null
  /\ detail.result.kind = "props"
  /\ IsNull(detail.result.nextPost)
  /\ ~IsNull(detail.result.previousPost)

\* the required fields of a raw document are all there
WellFormed(doc) ==
  /\ {"uid", "data"} \subseteq DOMAIN doc
  /\ {"title", "author", "content"} \subseteq DOMAIN doc.data
  /\ \A k \in DOMAIN doc.data.content : "body" \in DOMAIN doc.data.content[k]

\* C9: normalizing a document that lacks a required field fails with
\* MalformedDocumentError
C9_MalformedRejected ==
  (parsed.by # "none" /\ ~WellFormed(raw)) =>
    /\ Threw(parsed.value)
    /\ parsed.value.threw = "MalformedDocumentError"

IsPrefix(s, t) == Len(s) <= Len(t) /\ s = SubSeq(t, 1, Len(s))

\* C10: under any interleaving of loads the list is the first k pages
\* without duplicates, the cursor is the server's for page k + 1, and the
\* list never loses a post it showed
C10_ConsistentUnderRace ==
  /\ [](pc = "mounted" =>
          /\ \E k \in 1..(Len(ResultSet(NoRef)) + 1) :
               /\ posts = FirstPages(k)
               /\ nextPageUrl = ServerPage(k, NoRef).next_page
          /\ NoDuplicates)
  /\ [][pc = "mounted" => IsPrefix(posts, posts')]_vars

====
